---- MODULE Spec2Model ----
(***************************************************************************)
(* Model of download_and_convert.py: the tile fetcher (fetch_tile), the    *)
(* grid prober (detect_max_grid), the fallback resolver                    *)
(* (get_tile_with_fallback), the face assembler (download_and_merge_face)  *)
(* and the panorama pipeline (process_pano, merge_to_equirect, main).      *)
(*                                                                         *)
(* The tile server and the file system are the environment.  The server    *)
(* serves a rectangular grid of tiles on some pyramid levels; a request    *)
(* for a tile it serves may still fail transiently (non-200, timeout,      *)
(* transport error) or deliver a body that is no image; at most MaxFaults  *)
(* such faults happen per panorama.  The disk is reliable.                 *)
(***************************************************************************)
EXTENDS Integers, Sequences, FiniteSets, TLC

\* ---------------------------------------------------------------- constants
TILE_SIZE == 512
FACES == <<"f", "b", "l", "r", "u", "d">>
max_check == 10

\* ------------------------------------------------------------------- bounds
MaxLevel == 2      \* deepest pyramid level a resolver call is made at
MaxTiles == 3      \* the server holds at most MaxTiles tiles of a face and level
MaxFaults == 1     \* transient request faults per panorama
MaxSide == 2       \* longest side, in tiles, of a grid the tile loop is run on alone

\* the configuration load_data returns: locations with their panorama ids
DATA ==
  << [name |-> "A", panoramas |-> <<"p1", "p2">>],
     [name |-> "B", panoramas |-> <<"p3">>] >>

VARIABLES
  pc,          \* position of the single worker
  err,         \* the exception that escaped, "none" if none
  srv,         \* tile server: [levels, gx, gy], the tiles it serves
  faults,      \* transient faults so far in this panorama
  cache,       \* TEMP_DIR: tile path -> body of the cached file
  faceFiles,   \* face images on disk: <<loc, pano, face>> -> [w, h, pastes]
  panoDirs,    \* per-panorama directories that exist: <<loc, pano>>
  outputs,     \* equirectangular images written: <<loc, pano>>
  fetchLog,    \* fetch_tile calls made for the current face, in order
  last,        \* the fetch_tile call that just returned: arguments and outcome
  heads,       \* HEAD probes of the current detect_max_grid call
  stack,       \* activations of get_tile_with_fallback, innermost last
  ret,         \* value the outermost get_tile_with_fallback returned
  req,         \* <<level, x, y>> of the outermost call that returned last
  lvl,         \* the level parameter of download_and_merge_face
  max_x, max_y, scan,   \* detect_max_grid: results and loop index
  canvas,      \* the face image being composed: [w, h, pastes]
  tx, ty,      \* tile loop indices of download_and_merge_face
  li, pi,      \* main: index of the location and of the panorama in it
  fi,          \* process_pano: index into FACES of the face in work
  face_size,   \* process_pano: None or the reference edge length
  attempts,    \* faces download_and_merge_face was called for, this panorama
  assembled,   \* faces that returned a path, this panorama
  projCalls,   \* invocations of the external projector, this panorama
  mergeCalls,  \* calls of merge_to_equirect, this panorama
  processed,   \* panoramas process_pano was entered for, in order
  cleaned      \* panoramas whose cleanup (lines 158-159) ran

vars ==
  << pc, err, srv, faults, cache, faceFiles, panoDirs, outputs, fetchLog,
     heads, stack, ret, req, lvl, max_x, max_y, scan, canvas, tx, ty,
     li, pi, fi, face_size, attempts, assembled, projCalls, mergeCalls,
     processed, cleaned, last >>

envVars == << srv, faults >>
diskVars == << cache, faceFiles, panoDirs, outputs >>
gtfVars == << stack, ret, req, fetchLog, last >>
probeVars == << max_x, max_y, scan, heads >>
faceVars == << canvas, tx, ty >>
panoVars == << fi, face_size, attempts, assembled, projCalls, mergeCalls >>
mainVars == << li, pi, processed, cleaned >>

\* ------------------------------------------------------------------ helpers
None == << >>
Some(v) == << v >>

Pow2(n) == IF n <= 0 THEN 1 ELSE 2 ^ n

Min(a, b) == IF a < b THEN a ELSE b

RangeOf(s) == { s[i] : i \in DOMAIN s }

\* the panorama in work
CurLoc == DATA[li]
CurPano == DATA[li].panoramas[pi]
CurFace == FACES[fi]

\* out_path of a tile: cache_dir/{level}_{x}_{y}.jpg, cache_dir = TEMP_DIR/pano/face
TilePath(pano, face, level, x, y) == << pano, face, level, x, y >>

\* ------------------------------------------------------------ the tile server
OnServer(level, x, y) ==
  /\ level \in srv.levels
  /\ x < srv.gx * Pow2(level)
  /\ y < srv.gy * Pow2(level)

Nominal(level, x, y) ==
  IF OnServer(level, x, y) THEN [st |-> "200", body |-> "img"]
  ELSE [st |-> "404", body |-> "none"]

FaultyGets ==
  { [st |-> "404", body |-> "none"], [st |-> "timeout", body |-> "none"],
    [st |-> "error", body |-> "none"], [st |-> "200", body |-> "junk"] }

\* what one GET of the tile can come back with
GetResponses(level, x, y) ==
  {Nominal(level, x, y)} \cup
    (IF OnServer(level, x, y) /\ faults < MaxFaults THEN FaultyGets ELSE {})

\* what one HEAD of the tile can come back with
HeadResponses(level, x, y) ==
  {Nominal(level, x, y).st} \cup
    (IF OnServer(level, x, y) /\ faults < MaxFaults
       THEN {"404", "timeout", "error"} ELSE {})

\* ------------------------------------------------------------------ url_exists
url_exists(st) ==
  IF st \in {"timeout", "error"} THEN FALSE   \* except: return False
  ELSE st = "200"

\* ------------------------------------------------------------------ fetch_tile
\* the try block: [exc, ok, cache]
fetch_tile_try(files, path, resp) ==
  IF resp.st \in {"timeout", "error"}
    THEN [exc |-> TRUE, ok |-> FALSE, cache |-> files]
  ELSE IF resp.st = "200"
    THEN [exc |-> FALSE, ok |-> TRUE, cache |-> (path :> resp.body) @@ files]
  ELSE [exc |-> FALSE, ok |-> FALSE, cache |-> files]

\* fetch_tile without the except clause of lines 71-72
fetch_tile_noexcept(files, path, resp) ==
  IF path \in DOMAIN files
    THEN [ok |-> TRUE, cache |-> files, get |-> FALSE, raised |-> FALSE]
  ELSE LET r == fetch_tile_try(files, path, resp) IN
    [ok |-> r.ok, cache |-> r.cache, get |-> TRUE, raised |-> r.exc]

\* fetch_tile without the existence test of lines 60-61
fetch_tile_nocache(files, path, resp) ==
  LET r == fetch_tile_try(files, path, resp) IN
  [ok |-> r.ok, cache |-> r.cache, get |-> TRUE, raised |-> FALSE]

\* [ok, cache, get, raised]: the result, the disk afterwards, whether a GET was
\* issued, whether an exception left the function
fetch_tile(files, path, resp) ==
  IF path \in DOMAIN files
    THEN [ok |-> TRUE, cache |-> files, get |-> FALSE, raised |-> FALSE]
  ELSE LET r == fetch_tile_try(files, path, resp) IN
    IF r.exc
      THEN [ok |-> FALSE, cache |-> r.cache, get |-> TRUE, raised |-> FALSE]
      ELSE [ok |-> r.ok, cache |-> r.cache, get |-> TRUE, raised |-> FALSE]

\* ---------------------------------------------------------------- PIL images
\* an image is its size and the operations that made it
ImageOpen(path) ==
  [w |-> TILE_SIZE, h |-> TILE_SIZE, ops |-> << <<"open", path>> >>]

ImageCrop(im, box) ==
  [w |-> box[3] - box[1], h |-> box[4] - box[2],
   ops |-> Append(im.ops, <<"crop", box>>)]

ImageResize(im, size) ==
  [w |-> size[1], h |-> size[2], ops |-> Append(im.ops, <<"resize", size>>)]

\* Image.new with the size given as (height, width)
ImageNewTransposed(w, h) == [w |-> h, h |-> w, pastes |-> {}]

ImageNew(w, h) == [w |-> w, h |-> h, pastes |-> {}]

\* paste(tile, (left, upper)): the part of the tile outside the canvas is dropped
ImagePaste(im, tile, left, upper) ==
  [im EXCEPT !.pastes = @ \cup
     {[left |-> left, upper |-> upper,
       right |-> Min(left + tile.w, im.w), lower |-> Min(upper + tile.h, im.h),
       ops |-> tile.ops]}]

\* ------------------------------------------------- get_tile_with_fallback
\* An activation is [level, x, y, st, fl]: st = "fetch" before the direct fetch,
\* "loop" inside the fallback loop, whose variable fallback_level is fl.
Top == stack[Len(stack)]

Front(s) == SubSeq(s, 1, Len(s) - 1)

\* an activation whose fallback loop starts at its own level
FrameFromOwnLevel(level, x, y) ==
  [level |-> level, x |-> x, y |-> y, st |-> "fetch", fl |-> level]

Frame(level, x, y) ==
  [level |-> level, x |-> x, y |-> y, st |-> "fetch", fl |-> level - 1]

\* lines 101-104 calling at the caller's own level
SubCallSameLevel(f) == Frame(f.level, f.x, f.y)

\* lines 101-102: the activation the loop body calls
SubCall(f) ==
  LET scale == 2 ^ (f.level - f.fl) IN
  Frame(f.fl, f.x \div scale, f.y \div scale)

\* lines 106-110 with sub_size = TILE_SIZE, not divided by scale
CropResizeWhole(f, sub_tile) ==
  LET scale == 2 ^ (f.level - f.fl)
      sub_size == TILE_SIZE
      cx == (f.x % scale) * sub_size
      cy == (f.y % scale) * sub_size
      crop_box == << cx, cy, cx + sub_size, cy + sub_size >>
  IN ImageResize(ImageCrop(sub_tile, crop_box), << TILE_SIZE, TILE_SIZE >>)

\* lines 106-110: the tile rebuilt from the coarser tile sub_tile
CropResize(f, sub_tile) ==
  LET scale == 2 ^ (f.level - f.fl)
      sub_size == TILE_SIZE \div scale
      cx == (f.x % scale) * sub_size
      cy == (f.y % scale) * sub_size
      crop_box == << cx, cy, cx + sub_size, cy + sub_size >>
  IN ImageResize(ImageCrop(sub_tile, crop_box), << TILE_SIZE, TILE_SIZE >>)

\* lines 103-111: an activation returns r to the activations stk that wait for
\* it; a tile travels up through crop and resize, None resumes the caller's loop
RECURSIVE Unwind(_, _)
Unwind(stk, r) ==
  IF stk = << >> THEN [stack |-> << >>, ret |-> r]
  ELSE LET f == stk[Len(stk)] IN
    IF r # None
      THEN Unwind(Front(stk), Some(CropResize(f, r[1])))
      ELSE [stack |-> Append(Front(stk), [f EXCEPT !.fl = @ - 1]), ret |-> None]

\* line 132 with the offset (x * TILE_SIZE, y * TILE_SIZE)
PasteAtXY(im, tile, x, y) == ImagePaste(im, tile, x * TILE_SIZE, y * TILE_SIZE)

\* line 132
PasteAt(im, tile, x, y) == ImagePaste(im, tile, y * TILE_SIZE, x * TILE_SIZE)

\* lines 131-134: the canvas after the tile r of cell (tx, ty) came back
Pasted(r) == IF r # None THEN PasteAt(canvas, r[1], tx, ty) ELSE canvas

\* lines 127-134: get_tile_with_fallback returned r to download_and_merge_face:
\* paste, then the call for the next cell, or the end of the loops
AfterTile(r) ==
  /\ ret' = r
  /\ req' = << lvl, tx, ty >>
  /\ canvas' = Pasted(r)
  /\ tx' = IF ty < max_y THEN tx ELSE tx + 1
  /\ ty' = IF ty < max_y THEN ty + 1 ELSE 0
  /\ stack' = IF tx' <= max_x THEN << Frame(lvl, tx', ty') >> ELSE << >>
  /\ pc' = IF tx' <= max_x THEN "gtf" ELSE "save"

\* the innermost activation returns r
Return(r) ==
  LET u == Unwind(Front(stack), r) IN
  IF u.stack # << >>
    THEN /\ stack' = u.stack
         /\ UNCHANGED << pc, ret, req, faceVars >>
    ELSE AfterTile(u.ret)

\* an exception leaves get_tile_with_fallback and every caller up to asyncio.run
Raise(e) ==
  /\ pc' = "raised"
  /\ err' = e
  /\ stack' = << >>
  /\ UNCHANGED << ret, req, faceVars >>

NoFetch ==
  [path |-> << >>, existed |-> FALSE, resp |-> [st |-> "none", body |-> "none"],
   ok |-> FALSE, raised |-> FALSE]

\* lines 93-97: the direct fetch and Image.open
GTF_Fetch ==
  /\ pc = "gtf"
  /\ Top.st = "fetch"
  /\ \E resp \in GetResponses(Top.level, Top.x, Top.y) :
       LET path == TilePath(CurPano, CurFace, Top.level, Top.x, Top.y)
           r == fetch_tile(cache, path, resp)
       IN
       /\ cache' = r.cache
       /\ faults' = IF r.get /\ resp # Nominal(Top.level, Top.x, Top.y)
                      THEN faults + 1 ELSE faults
       /\ fetchLog' = Append(fetchLog,
            [cell |-> << tx, ty >>, path |-> path, get |-> r.get, ok |-> r.ok])
       /\ last' = [path |-> path, existed |-> path \in DOMAIN cache,
                   resp |-> IF r.get THEN resp ELSE NoFetch.resp,
                   ok |-> r.ok, raised |-> r.raised]
       /\ IF r.raised
            THEN Raise("ClientError")
          ELSE IF ~r.ok
            THEN /\ stack' = Append(Front(stack), [Top EXCEPT !.st = "loop"])
                 /\ UNCHANGED << pc, err, ret, req, faceVars >>
          ELSE IF r.cache[path] # "img"
            THEN Raise("UnidentifiedImageError")
          ELSE /\ Return(Some(ImageOpen(path)))
               /\ err' = err
  /\ UNCHANGED << srv, faceFiles, panoDirs, outputs, heads, lvl >>
  /\ UNCHANGED << max_x, max_y, scan, panoVars, mainVars >>

\* lines 100-111: one turn of the fallback loop, or its end
GTF_Fallback ==
  /\ pc = "gtf"
  /\ Top.st = "loop"
  /\ IF Top.fl >= 0
       THEN /\ stack' = Append(stack, SubCall(Top))
            /\ UNCHANGED << pc, ret, req, faceVars >>
       ELSE Return(None)
  /\ last' = NoFetch
  /\ UNCHANGED << err, envVars, diskVars, fetchLog, heads, lvl >>
  /\ UNCHANGED << max_x, max_y, scan, panoVars, mainVars >>

\* ------------------------------------------------------------ detect_max_grid
\* a scan loop that lacks the break of lines 81-82
ScanStepNoBreak(maxv, i, hit) ==
  [max |-> IF hit THEN i ELSE maxv,
   done |-> i + 1 >= max_check]

\* lines 77-82 and 84-89: one turn of a scan loop at index i
ScanStep(maxv, i, hit) ==
  [max |-> IF hit THEN i ELSE maxv,
   done |-> (~hit) \/ i + 1 >= max_check]

\* lines 77-82: the scan along (level, x, 0)
DetectScanX ==
  /\ pc = "scan_x"
  /\ \E st \in HeadResponses(lvl, scan, 0) :
       LET s == ScanStep(max_x, scan, url_exists(st)) IN
       /\ heads' = Append(heads,
            [loop |-> "x", x |-> scan, y |-> 0, hit |-> url_exists(st)])
       /\ faults' = IF st # Nominal(lvl, scan, 0).st THEN faults + 1 ELSE faults
       /\ max_x' = s.max
       /\ scan' = IF s.done THEN 0 ELSE scan + 1
       /\ pc' = IF s.done THEN "scan_y" ELSE "scan_x"
  /\ UNCHANGED << err, srv, diskVars, max_y, gtfVars, lvl >>
  /\ UNCHANGED << faceVars, panoVars, mainVars >>

\* lines 84-90: the scan along (level, 0, y), then the return
DetectScanY ==
  /\ pc = "scan_y"
  /\ \E st \in HeadResponses(lvl, 0, scan) :
       LET s == ScanStep(max_y, scan, url_exists(st)) IN
       /\ heads' = Append(heads,
            [loop |-> "y", x |-> 0, y |-> scan, hit |-> url_exists(st)])
       /\ faults' = IF st # Nominal(lvl, 0, scan).st THEN faults + 1 ELSE faults
       /\ max_y' = s.max
       /\ scan' = IF s.done THEN 0 ELSE scan + 1
       /\ pc' = IF s.done THEN "grid" ELSE "scan_y"
  /\ UNCHANGED << err, srv, diskVars, max_x, gtfVars, lvl >>
  /\ UNCHANGED << faceVars, panoVars, mainVars >>

\* ------------------------------------------------------------------ the disk
PanoKey == << CurLoc.name, CurPano >>

FaceKey(face) == << CurLoc.name, CurPano, face >>

\* shutil.rmtree(pano_dir, ignore_errors=True)
RmPanoDir(files) ==
  [k \in { k \in DOMAIN files : << k[1], k[2] >> # PanoKey } |-> files[k]]

\* shutil.rmtree(TEMP_DIR, ignore_errors=True)
RmTempDir(files) == << >>

\* ------------------------------------------------------ download_and_merge_face
\* lines 148-149 and 114-117: process_pano calls download_and_merge_face for
\* FACES[i], which runs up to its first probe
StartFace(i) ==
  /\ fi' = i
  /\ attempts' = IF i = 1 THEN << FACES[i] >> ELSE Append(attempts, FACES[i])
  /\ panoDirs' = panoDirs \cup {PanoKey}
  /\ max_x' = -1
  /\ max_y' = -1
  /\ scan' = 0
  /\ heads' = << >>
  /\ fetchLog' = << >>
  /\ last' = NoFetch
  /\ canvas' = ImageNew(0, 0)
  /\ tx' = 0
  /\ ty' = 0
  /\ ret' = None
  /\ req' = << >>
  /\ pc' = "scan_x"

\* line 148: the face loop goes on with the next face or ends
NextFace ==
  IF fi < Len(FACES)
    THEN StartFace(fi + 1)
    ELSE /\ pc' = "project"
         /\ UNCHANGED << fi, attempts, panoDirs, probeVars, fetchLog, last >>
         /\ UNCHANGED << faceVars, ret, req >>

\* line 118 with "and" for "or"
NoTilesBoth(mx, my) == mx < 0 /\ my < 0

\* line 118
NoTiles(mx, my) == mx < 0 \/ my < 0

\* lines 118-130: no grid and the return of None, or the canvas and the call
\* for the first cell
FaceGrid ==
  /\ pc = "grid"
  /\ IF NoTiles(max_x, max_y)
       THEN /\ NextFace
            /\ stack' = stack
       ELSE /\ canvas' = ImageNew((max_x + 1) * TILE_SIZE, (max_y + 1) * TILE_SIZE)
            /\ tx' = 0
            /\ ty' = 0
            /\ stack' = << Frame(lvl, 0, 0) >>
            /\ pc' = "gtf"
            /\ UNCHANGED << fi, attempts, panoDirs, probeVars, fetchLog, last >>
            /\ UNCHANGED << ret, req >>
  /\ UNCHANGED << err, envVars, cache, faceFiles, outputs, lvl >>
  /\ UNCHANGED << face_size, assembled, projCalls, mergeCalls, mainVars >>

\* lines 150-151 without "and face_size is None": the last face sets face_size
FaceSizeLast(face_image) == Some(face_image.w)

\* lines 150-151
FaceSize(face_image) ==
  IF face_size = None THEN Some(face_image.w) ELSE face_size

\* lines 136-139 and 150-151: the face is saved, its path returned
FaceSave ==
  /\ pc = "save"
  /\ faceFiles' = (FaceKey(CurFace) :> canvas) @@ faceFiles
  /\ assembled' = assembled \cup {CurFace}
  /\ face_size' = FaceSize(canvas)
  /\ NextFace
  /\ UNCHANGED << err, envVars, cache, outputs, stack, lvl >>
  /\ UNCHANGED << projCalls, mergeCalls, mainVars >>

\* ---------------------------------------------------------------- process_pano
\* line 153 taken whatever face_size is
TruthyAlways(v) == TRUE

\* line 153 never taken
TruthyNever(v) == FALSE

\* line 153: if face_size
Truthy(v) == v # None /\ v[1] # 0

\* the grids a panorama's tiles can form on the server
Grids ==
  { << 0, 0 >> } \cup
  { g \in (1 .. MaxTiles) \X (1 .. MaxTiles) : g[1] * g[2] <= MaxTiles }

LastPano == li = Len(DATA) /\ pi = Len(DATA[li].panoramas)

\* line 206 returns: the loops of main (lines 204-205) move on
BackToMain ==
  /\ pc' = IF LastPano THEN "finished" ELSE "main"
  /\ li' = IF pi < Len(DATA[li].panoramas) \/ LastPano THEN li ELSE li + 1
  /\ pi' = IF LastPano THEN pi
           ELSE IF pi < Len(DATA[li].panoramas) THEN pi + 1 ELSE 1

\* lines 204-206 and 142-149: main calls process_pano for the next panorama,
\* whose tiles the server holds as some grid
MainLoop ==
  /\ pc = "main"
  /\ processed' = Append(processed, PanoKey)
  /\ \E g \in Grids : srv' = [levels |-> {0}, gx |-> g[1], gy |-> g[2]]
  /\ faults' = 0
  /\ face_size' = None
  /\ assembled' = {}
  /\ projCalls' = << >>
  /\ mergeCalls' = 0
  /\ StartFace(1)
  /\ UNCHANGED << err, cache, faceFiles, outputs, stack, lvl, li, pi, cleaned >>

\* ------------------------------------------------------------ merge_to_equirect
\* lines 170-173: the faces whose file is missing
MissingFaces == { f \in RangeOf(FACES) : FaceKey(f) \notin DOMAIN faceFiles }

\* lines 175-194: the call of py360convert.c2e
ProjectorCall(size) ==
  [faces |-> [f \in RangeOf(FACES) |->
                [w |-> faceFiles[FaceKey(f)].w, h |-> faceFiles[FaceKey(f)].h]],
   out_h |-> size * 2,
   out_w |-> size * 4]

\* the projector's contract (section 6): six same-size square faces
WellFormed(call) ==
  \A f \in RangeOf(FACES) :
    /\ call.faces[f].w = call.faces[f].h
    /\ call.faces[f].w = call.faces["f"].w

\* lines 158-160
Cleanup ==
  /\ faceFiles' = RmPanoDir(faceFiles)
  /\ panoDirs' = panoDirs \ {PanoKey}
  /\ cache' = RmTempDir(cache)
  /\ cleaned' = cleaned \cup {PanoKey}

\* lines 153-160 with merge_to_equirect: projection and cleanup.  What c2e does
\* with faces outside its contract is not this program's: it returns or raises.
Project ==
  /\ pc = "project"
  /\ IF Truthy(face_size)
       THEN /\ mergeCalls' = mergeCalls + 1
            /\ IF MissingFaces # {}
                 THEN /\ pc' = "raised"
                      /\ err' = "FileNotFoundError"
                      /\ UNCHANGED << diskVars, projCalls, li, pi, cleaned >>
                 ELSE /\ projCalls' = Append(projCalls, ProjectorCall(face_size[1]))
                      /\ \E returns \in {TRUE, WellFormed(ProjectorCall(face_size[1]))} :
                           IF returns
                             THEN /\ outputs' = outputs \cup {PanoKey}
                                  /\ Cleanup
                                  /\ BackToMain
                                  /\ err' = err
                             ELSE /\ pc' = "raised"
                                  /\ err' = "ProjectorError"
                                  /\ UNCHANGED << diskVars, li, pi, cleaned >>
       ELSE /\ BackToMain
            /\ UNCHANGED << err, diskVars, projCalls, mergeCalls, cleaned >>
  /\ UNCHANGED << envVars, gtfVars, probeVars, faceVars, lvl >>
  /\ UNCHANGED << fi, face_size, attempts, assembled, processed >>

\* ------------------------------------------------------------- specifications
InitCommon ==
  /\ err = "none"
  /\ faults = 0
  /\ cache = << >>
  /\ faceFiles = << >>
  /\ panoDirs = {}
  /\ outputs = {}
  /\ fetchLog = << >>
  /\ last = NoFetch
  /\ heads = << >>
  /\ ret = None
  /\ req = << >>
  /\ scan = 0
  /\ li = 1
  /\ pi = 1
  /\ fi = 1
  /\ face_size = None
  /\ assembled = {}
  /\ projCalls = << >>
  /\ mergeCalls = 0
  /\ cleaned = {}

\* the run of main (lines 201-206) on DATA, from empty directories
Init ==
  /\ InitCommon
  /\ pc = "main"
  /\ lvl = 0
  /\ srv = [levels |-> {0}, gx |-> 0, gy |-> 0]
  /\ stack = << >>
  /\ max_x = -1
  /\ max_y = -1
  /\ canvas = ImageNew(0, 0)
  /\ tx = 0
  /\ ty = 0
  /\ attempts = << >>
  /\ processed = << >>

Next ==
  \/ MainLoop
  \/ DetectScanX
  \/ DetectScanY
  \/ FaceGrid
  \/ GTF_Fetch
  \/ GTF_Fallback
  \/ FaceSave
  \/ Project

Spec == Init /\ [][Next]_vars

\* detect_max_grid on its own (lines 74-90), against a server grid that can
\* exceed max_check
InitProbe ==
  /\ InitCommon
  /\ pc = "scan_x"
  /\ lvl = 0
  /\ \E gx \in 0 .. max_check + 1, gy \in 0 .. max_check + 1 :
       srv = [levels |-> {0}, gx |-> gx, gy |-> gy]
  /\ stack = << >>
  /\ max_x = -1
  /\ max_y = -1
  /\ canvas = ImageNew(0, 0)
  /\ tx = 0
  /\ ty = 0
  /\ attempts = << "f" >>
  /\ processed = << PanoKey >>

NextProbe == DetectScanX \/ DetectScanY

SpecProbe == InitProbe /\ [][NextProbe]_vars

\* the tile loop of download_and_merge_face (lines 122-134) on its own, at any
\* level and for any grid extent, against a server that holds whole pyramid
\* levels over one level-0 tile
InitResolve ==
  /\ InitCommon
  /\ pc = "gtf"
  /\ lvl \in 0 .. MaxLevel
  /\ \E ls \in SUBSET (0 .. MaxLevel) : srv = [levels |-> ls, gx |-> 1, gy |-> 1]
  /\ \E g \in (1 .. MaxSide) \X (1 .. MaxSide) :
       /\ g[1] <= Pow2(lvl)
       /\ g[2] <= Pow2(lvl)
       /\ max_x = g[1] - 1
       /\ max_y = g[2] - 1
  /\ canvas = ImageNew((max_x + 1) * TILE_SIZE, (max_y + 1) * TILE_SIZE)
  /\ tx = 0
  /\ ty = 0
  /\ stack = << Frame(lvl, 0, 0) >>
  /\ attempts = << "f" >>
  /\ processed = << PanoKey >>

NextResolve == GTF_Fetch \/ GTF_Fallback

SpecResolve == InitResolve /\ [][NextResolve]_vars

\* the same with the event loop running the one coroutine on: every await
\* comes back, the requests having timeouts (lines 54 and 63)
SpecResolveLive == SpecResolve /\ WF_vars(NextResolve)

\* ===================================================================== claims
Max(S) == CHOOSE m \in S : \A n \in S : n <= m

\* ------------------------------------------------------------------------- C5
\* the index a probe of the loop ("x" or "y") was made at
ProbeIndex(e) == IF e.loop = "x" THEN e.x ELSE e.y

\* the k < max_check such that the loop's checks at 0 .. k all succeeded
HitPrefix(loop) ==
  { k \in 0 .. max_check - 1 :
      \A j \in 0 .. k :
        \E i \in DOMAIN heads :
          heads[i].loop = loop /\ ProbeIndex(heads[i]) = j /\ heads[i].hit }

ExpectedMax(loop) == IF HitPrefix(loop) = {} THEN -1 ELSE Max(HitPrefix(loop))

\* C5: when detect_max_grid returns, max_x is the largest k < max_check such
\* that the existence checks of (level, 0, 0) .. (level, k, 0) all succeeded,
\* -1 if the check of (level, 0, 0) failed; so a tile (level, k, 0) the server
\* does not hold gives max_x < k.  max_y is the same along (level, 0, y), from
\* its own checks alone, whatever the x scan found.
C5_ProbeExtent ==
  pc = "grid" =>
    /\ max_x = ExpectedMax("x")
    /\ max_y = ExpectedMax("y")
    /\ \A k \in 0 .. max_check : ~OnServer(lvl, k, 0) => max_x < k
    /\ \A k \in 0 .. max_check : ~OnServer(lvl, 0, k) => max_y < k
    /\ \E i \in DOMAIN heads : heads[i].loop = "y" /\ heads[i].y = 0

\* C5 witness: hits at x = 0, 1, 2, a miss at x = 3, and max_x = 2
C5_ScenarioA ==
  /\ pc = "grid"
  /\ max_x = 2
  /\ Len(heads) >= 4
  /\ \A i \in 1 .. 4 :
       heads[i].loop = "x" /\ heads[i].x = i - 1 /\ (heads[i].hit <=> i <= 3)

\* ------------------------------------------------------------------------- C7
\* C7: fetch_tile never raises; on a non-200 status, a timeout or a transport
\* error it returns failure and no file is at the destination path afterwards;
\* it returns success only if the path existed before the call or a status-200
\* body was written to it.
C7_FetchContract ==
  /\ err # "ClientError"
  /\ (last # NoFetch /\ pc \in {"gtf", "save"}) =>
       /\ ~last.raised
       /\ last.resp.st \in {"404", "timeout", "error"} =>
            ~last.ok /\ last.path \notin DOMAIN cache
       /\ last.ok =>
            /\ last.path \in DOMAIN cache
            /\ \/ last.existed
               \/ last.resp.st = "200" /\ cache[last.path] = last.resp.body
       /\ ~last.ok => ~last.existed /\ last.resp.st # "200"

\* C7 witness: a GET that timed out or broke, answered with failure
C7_FailedGet ==
  /\ pc = "gtf"
  /\ last.resp.st \in {"timeout", "error"}
  /\ ~last.ok
  /\ last.path \notin DOMAIN cache

\* ------------------------------------------------------------------------- C2
\* the calls of fetch_tile made with the same destination path, in order
SamePath(i, j) ==
  /\ i \in DOMAIN fetchLog
  /\ j \in DOMAIN fetchLog
  /\ i < j
  /\ fetchLog[i].path = fetchLog[j].path

\* C2 as claimed: two calls of fetch_tile with the same destination path make
\* at most one GET between them, whatever the server answered to the first.
C2_AtMostOneGet ==
  \A i, j \in DOMAIN fetchLog :
    SamePath(i, j) => ~(fetchLog[i].get /\ fetchLog[j].get)

\* C2 as amended: after a call of fetch_tile that returned success, a later call
\* with the same destination path succeeds without a GET; a call makes no GET
\* only after such a success, so after a failed call the next call with that
\* path requests the tile again.
C2_OneGetAfterSuccess ==
  /\ \A i, j \in DOMAIN fetchLog :
       (SamePath(i, j) /\ fetchLog[i].ok) => (~fetchLog[j].get /\ fetchLog[j].ok)
  /\ \A j \in DOMAIN fetchLog :
       ~fetchLog[j].get => \E i \in DOMAIN fetchLog : SamePath(i, j) /\ fetchLog[i].ok

\* C2 witness: a second call with the path of a successful first call
C2_CacheHit ==
  \E i, j \in DOMAIN fetchLog :
    SamePath(i, j) /\ fetchLog[i].ok /\ fetchLog[i].get /\ ~fetchLog[j].get

\* ------------------------------------------------------------------------- C1
\* the fetch_tile calls made for the cell c of the face
FetchesOf(c) == { i \in DOMAIN fetchLog : fetchLog[i].cell = c }

Fetched(c) == \E i \in FetchesOf(c) : fetchLog[i].ok

\* the tiles (l, x div 2^(level-l), y div 2^(level-l)), 0 <= l <= level
Ancestors(level, x, y) ==
  { << l, x \div Pow2(level - l), y \div Pow2(level - l) >> : l \in 0 .. level }

\* C1 as claimed: get_tile_with_fallback(level, x, y) requests only the tile and
\* its ancestors; if the fetch of one of them succeeds it returns a tile, of edge
\* length TILE_SIZE; if all of them fail it returns absent.
C1_ResolveTotal ==
  /\ \A i \in DOMAIN fetchLog :
       << fetchLog[i].path[3], fetchLog[i].path[4], fetchLog[i].path[5] >>
         \in Ancestors(lvl, fetchLog[i].cell[1], fetchLog[i].cell[2])
  /\ req # << >> =>
       /\ ret # None <=> Fetched(<< req[2], req[3] >>)
       /\ ret # None => ret[1].w = TILE_SIZE /\ ret[1].h = TILE_SIZE
  /\ pc = "raised" => ~Fetched(<< tx, ty >>)

\* C1 for the calls that return: the same without its last conjunct, which a
\* cached file that is no image breaks (see C8)
C1_WhenReturned ==
  /\ \A i \in DOMAIN fetchLog :
       << fetchLog[i].path[3], fetchLog[i].path[4], fetchLog[i].path[5] >>
         \in Ancestors(lvl, fetchLog[i].cell[1], fetchLog[i].cell[2])
  /\ req # << >> =>
       /\ ret # None <=> Fetched(<< req[2], req[3] >>)
       /\ ret # None => ret[1].w = TILE_SIZE /\ ret[1].h = TILE_SIZE

\* ------------------------------------------------------------------------- C3
\* the face loop of process_pano (lines 148-151) has ended
AfterFaces ==
  \/ pc \in {"main", "finished"} /\ processed # << >>
  \/ pc = "raised" /\ err \in {"FileNotFoundError", "ProjectorError"}

\* C3 as claimed: once process_pano has ended for a panorama after its face
\* loop, whether the projection succeeded, the projection raised or no face was
\* assembled, the directory of the panorama is gone and no face file and no
\* cached tile of it is left on disk.
C3_PurgedAfterPano ==
  AfterFaces =>
    \A i \in DOMAIN processed :
      /\ processed[i] \notin panoDirs
      /\ \A k \in DOMAIN faceFiles : << k[1], k[2] >> # processed[i]
      /\ \A t \in DOMAIN cache : t[1] # processed[i][2]

\* ------------------------------------------------------------------------- C4
\* every panorama of DATA, in the order main visits them
RECURSIVE PanosFrom(_, _)
PanosFrom(l, p) ==
  IF l > Len(DATA) THEN << >>
  ELSE IF p > Len(DATA[l].panoramas) THEN PanosFrom(l + 1, 1)
  ELSE << << DATA[l].name, DATA[l].panoramas[p] >> >> \o PanosFrom(l, p + 1)

AllPanos == PanosFrom(1, 1)

\* C4 as claimed: a panorama that fails at projection time for a missing face
\* file does not stop the run: when the run is over, process_pano was entered
\* for every panorama of every location.
C4_RunContinues ==
  (pc \in {"finished", "raised"} /\ err = "FileNotFoundError") =>
    processed = AllPanos

\* ------------------------------------------------------------------------- C6
\* C6 as claimed: every invocation of the projector gets six square faces of one
\* edge length, which is face_size.
C6_EqualSquareFaces ==
  \A i \in DOMAIN projCalls :
    \A f \in RangeOf(FACES) :
      /\ projCalls[i].faces[f].w = projCalls[i].faces[f].h
      /\ projCalls[i].faces[f].w = face_size[1]

\* ------------------------------------------------------------------------- C8
\* C8 as claimed: the one exception that leaves process_pano is the missing
\* face file of merge_to_equirect.
C8_OnlyMissingFaceEscapes ==
  pc = "raised" => err = "FileNotFoundError"

C10_AbsentFaceSkipped ==
  [][(pc = "grid" /\ (max_x < 0 \/ max_y < 0)) =>
       /\ fetchLog = << >>
       /\ fetchLog' = << >>
       /\ cache' = cache
       /\ faceFiles' = faceFiles
       /\ assembled' = assembled
       /\ err' = err
       /\ pc' = IF fi < Len(FACES) THEN "scan_x" ELSE "project"
       /\ fi < Len(FACES) =>
            fi' = fi + 1 /\ attempts' = Append(attempts, FACES[fi + 1])]_vars

\* C10 witness: face u had no tiles and the other five faces were assembled
C10_ScenarioC ==
  /\ pc = "project"
  /\ attempts = FACES
  /\ assembled = RangeOf(FACES) \ {"u"}

\* ------------------------------------------------------------------------ C11
\* scenario B: the tile loop at level 1 got, for cell (1, 1), a tile rebuilt
\* from the level-0 tile (0, 0)
C11_ScenarioB ==
  /\ req = << 1, 1, 1 >>
  /\ ret # None
  /\ ret[1].ops[1] = << "open", TilePath(CurPano, CurFace, 0, 0, 0) >>

\* C11 as claimed: in scenario B the resolver crops the box (512,512)-(1024,1024)
\* of the parent tile and resizes the crop to 512 x 512.
C11_CropQuadrant1024 ==
  C11_ScenarioB =>
    ret[1].ops = << << "open", TilePath(CurPano, CurFace, 0, 0, 0) >>,
                    << "crop", << 512, 512, 1024, 1024 >> >>,
                    << "resize", << 512, 512 >> >> >>

\* C11 as amended: in scenario B the resolver (scale = 2, sub_size = 256) crops
\* the box (256,256)-(512,512), the lower right quadrant of the 512 x 512 parent
\* tile, and resizes the crop to 512 x 512.
C11_CropQuadrant512 ==
  C11_ScenarioB =>
    /\ ret[1].ops = << << "open", TilePath(CurPano, CurFace, 0, 0, 0) >>,
                       << "crop", << 256, 256, 512, 512 >> >>,
                       << "resize", << 512, 512 >> >> >>
    /\ ret[1].w = 512
    /\ ret[1].h = 512

\* ------------------------------------------------------------------------ C12
\* the first face, in the order of FACES, that was assembled
FirstAssembled ==
  FACES[CHOOSE i \in DOMAIN FACES :
          /\ FACES[i] \in assembled
          /\ \A j \in 1 .. i - 1 : FACES[j] \notin assembled]

\* C12: face_size is set exactly when a face was assembled, and is then the
\* width (size[0]) of the first assembled face in the order f, b, l, r, u, d;
\* every invocation of the projector asks for height 2 * face_size and width
\* 4 * face_size, which is 1024 x 2048 for face_size = 512.
C12_FaceSizeAndOutput ==
  /\ face_size = None <=> assembled = {}
  /\ (assembled # {} /\ FaceKey(FirstAssembled) \in DOMAIN faceFiles) =>
       face_size[1] = faceFiles[FaceKey(FirstAssembled)].w
  /\ \A i \in DOMAIN projCalls :
       /\ projCalls[i].out_h = 2 * face_size[1]
       /\ projCalls[i].out_w = 4 * face_size[1]
       /\ face_size[1] = projCalls[i].faces[FirstAssembled].w
       /\ face_size[1] = 512 =>
            projCalls[i].out_h = 1024 /\ projCalls[i].out_w = 2048

\* C12 witness, scenario D: six faces of 512 x 512, the projector invoked for
\* 1024 x 2048
C12_ScenarioD ==
  /\ Len(projCalls) = 1
  /\ \A f \in RangeOf(FACES) :
       projCalls[1].faces[f].w = 512 /\ projCalls[1].faces[f].h = 512
  /\ face_size = Some(512)
  /\ projCalls[1].out_h = 1024
  /\ projCalls[1].out_w = 2048

\* ------------------------------------------------------------------------ C13
\* the activations of get_tile_with_fallback nest at strictly smaller levels >= 0
NestedLevels ==
  /\ Len(stack) <= lvl + 1
  /\ \A i \in DOMAIN stack :
       /\ stack[i].level >= 0
       /\ i = 1 => stack[i].level = lvl
       /\ i > 1 => /\ stack[i].level < stack[i - 1].level
                   /\ stack[i].level = stack[i - 1].fl

\* C13: every recursive call of get_tile_with_fallback is made at a strictly
\* smaller level that is >= 0, the nesting depth of the recursive calls never
\* exceeds the requested level, and every call ends (by a return or an
\* exception): the tile loop, which makes its calls one after the other, gets
\* past the last of them.
C13_Terminates ==
  /\ []NestedLevels
  /\ <>(pc # "gtf")

\* C13 witness: a call at level 2 whose recursion is two calls deep
C13_FullDepth ==
  /\ lvl = 2
  /\ Len(stack) = 3
  /\ stack[3].level = 0

\* ------------------------------------------------------------------------ C14
\* C14: the canvas of a face is (max_x + 1) * TILE_SIZE wide and
\* (max_y + 1) * TILE_SIZE high, (max_x, max_y) being what the probe of the face
\* returned, and it is saved as the face image with these dimensions whether or
\* not tiles were missing.
C14_FaceDimensions ==
  /\ [](pc \in {"gtf", "save"} =>
          /\ max_x = ExpectedMax("x")
          /\ max_y = ExpectedMax("y")
          /\ canvas.w = (max_x + 1) * TILE_SIZE
          /\ canvas.h = (max_y + 1) * TILE_SIZE)
  /\ [][pc = "save" =>
          /\ FaceKey(CurFace) \in DOMAIN faceFiles'
          /\ faceFiles'[FaceKey(CurFace)].w = (max_x + 1) * TILE_SIZE
          /\ faceFiles'[FaceKey(CurFace)].h = (max_y + 1) * TILE_SIZE]_vars

\* C14 witness: face f was saved as 1024 x 512 from a grid of two cells, one of
\* which got no tile
C14_GapFaceSaved ==
  /\ "f" \in assembled
  /\ FaceKey("f") \in DOMAIN faceFiles
  /\ faceFiles[FaceKey("f")].w = 2 * TILE_SIZE
  /\ faceFiles[FaceKey("f")].h = TILE_SIZE
  /\ Cardinality(faceFiles[FaceKey("f")].pastes) = 1

\* ------------------------------------------------------------------------ C15
\* the step in which the call made for cell (tx, ty) comes back to the tile loop
CellDone == pc = "gtf" /\ pc' # "raised" /\ (pc' = "save" \/ << tx', ty' >> # << tx, ty >>)

\* C15: when the tile of cell (x, y) is resolved, the one paste made for it is
\* at offset (y * TILE_SIZE, x * TILE_SIZE), left from y and upper from x, and
\* for x # y there is none at (x * TILE_SIZE, y * TILE_SIZE); a cell without a
\* tile leaves the canvas as it was.
C15_AxisSwap ==
  [][CellDone =>
       IF ret' # None
         THEN /\ \E p \in canvas'.pastes :
                   /\ p.left = ty * TILE_SIZE
                   /\ p.upper = tx * TILE_SIZE
                   /\ p.ops = ret'[1].ops
                   /\ canvas'.pastes = canvas.pastes \cup {p}
              /\ tx # ty =>
                   ~\E p \in canvas'.pastes \ canvas.pastes :
                       p.left = tx * TILE_SIZE /\ p.upper = ty * TILE_SIZE
         ELSE canvas' = canvas]_vars

\* C15 witness: the tile of cell (1, 0) was pasted at offset (0, TILE_SIZE)
C15_Cell10Pasted ==
  /\ req = << lvl, 1, 0 >>
  /\ ret # None
  /\ \E p \in canvas.pastes :
       p.left = 0 /\ p.upper = TILE_SIZE /\ p.ops = ret[1].ops

\* ------------------------------------------------------------------------ C16
\* C16 as claimed, for one call of the tile loop: among the requests made for
\* one cell, a tile whose GET failed is not requested by GET again.
C16_NoGetAfterFailedGet ==
  \A i \in DOMAIN fetchLog : \A j \in DOMAIN fetchLog :
    ( /\ i < j
      /\ fetchLog[i].cell = fetchLog[j].cell
      /\ fetchLog[i].path = fetchLog[j].path
      /\ fetchLog[i].get
      /\ ~fetchLog[i].ok ) => ~fetchLog[j].get

\* ------------------------------------------------------------------------ C17
\* the fetch_tile call i wrote its destination file (lines 66-68)
Wrote(i) == fetchLog[i].get /\ fetchLog[i].ok

\* C17: outside the cleanup of process_pano no step removes or changes a cached
\* tile file, and no destination path is written by two calls of fetch_tile
\* (the calls are made one after the other by the one coroutine, and a call
\* writes only a path that does not exist yet).
C17_CacheAdditive ==
  /\ [][pc # "project" =>
          \A p \in DOMAIN cache : p \in DOMAIN cache' /\ cache'[p] = cache[p]]_vars
  /\ [](\A i \in DOMAIN fetchLog : \A j \in DOMAIN fetchLog :
          (i < j /\ fetchLog[i].path = fetchLog[j].path) => ~(Wrote(i) /\ Wrote(j)))

\* C17 witness: the tile loop has ended, a tile written by one call was asked
\* for again by a later call and is in the cache with the body first written
C17_KeptAndReused ==
  /\ pc = "save"
  /\ \E i \in DOMAIN fetchLog : \E j \in DOMAIN fetchLog :
       /\ i < j
       /\ fetchLog[i].path = fetchLog[j].path
       /\ Wrote(i)
       /\ fetchLog[j].ok
       /\ fetchLog[i].path \in DOMAIN cache
       /\ cache[fetchLog[i].path] = "img"

\* ------------------------------------------------------------------------ C18
\* C18 as claimed: every tile pasted into the canvas of a face lies entirely
\* inside it: its TILE_SIZE x TILE_SIZE box at (y * TILE_SIZE, x * TILE_SIZE)
\* ends within the canvas width and height, so nothing of it is clipped.
C18_PasteInsideCanvas ==
  \A p \in canvas.pastes :
    /\ p.left + TILE_SIZE <= canvas.w
    /\ p.upper + TILE_SIZE <= canvas.h
    /\ p.right = p.left + TILE_SIZE
    /\ p.lower = p.upper + TILE_SIZE

\* ------------------------------------------------------------------------ C19
\* C19: from empty output and temp directories, the only step that writes an
\* output image is the projection step of a panorama whose six faces were all
\* assembled, and the image is that panorama's; the projection step of a
\* panorama with some but not all faces assembled raises FileNotFoundError and
\* writes nothing; with no face assembled it writes nothing either.
C19_OutputOnlyFromSixFaces ==
  /\ [][outputs' # outputs =>
          /\ pc = "project"
          /\ assembled = RangeOf(FACES)
          /\ outputs' = outputs \cup {PanoKey}]_vars
  /\ [][(pc = "project" /\ assembled # RangeOf(FACES)) =>
          /\ outputs' = outputs
          /\ IF assembled # {}
               THEN pc' = "raised" /\ err' = "FileNotFoundError"
               ELSE pc' # "raised" /\ err' = err]_vars
  /\ [](\A k \in outputs : \E i \in DOMAIN processed : processed[i] = k)

\* C19 witness: the first panorama got its output from six faces, the second,
\* with face f absent and others assembled, ended in the missing-face error
\* without an output
C19_OneOutputOneMissing ==
  /\ Len(processed) = 2
  /\ outputs = { processed[1] }
  /\ pc = "raised"
  /\ err = "FileNotFoundError"
  /\ "f" \notin assembled
  /\ assembled # {}

\* ------------------------------------------------------------------------ C20
\* C20: in a run of main every probe and every call of get_tile_with_fallback
\* is at level 0 and no call is nested in another; each cell of a face gets
\* one fetch_tile call, for its own level-0 tile, which issues a GET; when that
\* GET fails the call returns None, the canvas keeps the cell blank and the
\* tile loop goes on; the canvas is saved as the face image as it is.
C20_LevelZeroOnly ==
  /\ [](/\ lvl = 0
        /\ Len(stack) <= 1
        /\ \A i \in DOMAIN stack : stack[i].level = 0
        /\ \A i \in DOMAIN fetchLog :
             /\ fetchLog[i].path[3] = 0
             /\ << fetchLog[i].path[4], fetchLog[i].path[5] >> = fetchLog[i].cell
             /\ fetchLog[i].get
             /\ \A j \in DOMAIN fetchLog :
                  i # j => fetchLog[i].cell # fetchLog[j].cell)
  /\ [][(pc = "gtf" /\ Top.st = "loop") =>
          /\ \E i \in DOMAIN fetchLog :
               fetchLog[i].cell = << tx, ty >> /\ ~fetchLog[i].ok
          /\ ret' = None
          /\ req' = << 0, tx, ty >>
          /\ canvas' = canvas
          /\ pc' \in {"gtf", "save"}
          /\ fetchLog' = fetchLog]_vars
  /\ [][pc = "save" =>
          /\ faceFiles' = (FaceKey(CurFace) :> canvas) @@ faceFiles
          /\ assembled' = assembled \cup {CurFace}]_vars

\* C20 witness: the only tile of face f could not be fetched and the face was
\* saved blank, after one GET
C20_BlankFaceSaved ==
  /\ "f" \in assembled
  /\ FaceKey("f") \in DOMAIN faceFiles
  /\ faceFiles[FaceKey("f")].w = TILE_SIZE
  /\ faceFiles[FaceKey("f")].h = TILE_SIZE
  /\ faceFiles[FaceKey("f")].pastes = {}
  /\ cache = << >>

====
